---- MODULE Spec2Model ----
(***************************************************************************)
(* Model of src/seq2action_replace/src/py/main.py: preprocess_data (the    *)
(* entity lexicon parse and the relexicalization of action tokens) and     *)
(* evaluate / print_accuracy_metrics (sequence, token and denotation       *)
(* scoring and the STATS record).                                          *)
(*                                                                         *)
(* A Python str is a sequence of one-character strings, so that split,     *)
(* join, index, startswith and replace do what the interpreter does.       *)
(***************************************************************************)
EXTENDS Integers, Sequences, FiniteSets, TLC

VARIABLES
  pc,                      \* position of the program
  err,                     \* the exception that escaped, "" while none has
  raw,                     \* preprocess_data: the raw records
  data,                    \* preprocess_data: the Examples built so far
  y_new_toks,              \* preprocess_data: y_new_toks of each record done
  name,                    \* evaluate: the dataset name
  domain,                  \* evaluate: "None" or "oracle"
  decoded,                 \* evaluate: what decode() returns for each example
  derivs,                  \* evaluate: derivs
  denotation_correct_list, \* evaluate: [is_none, flags]
  is_correct_list,         \* evaluate: is_correct_list
  tokens_correct_list,     \* evaluate: tokens_correct_list
  y_len_list,              \* evaluate: y_len_list
  STATS,                   \* the global STATS
  OPTIONS,                 \* main: the parsed command line
  steps                    \* main: the steps of run() taken, in order

vars == <<pc, err, raw, data, y_new_toks, name, domain, decoded, derivs,
          denotation_correct_list, is_correct_list, tokens_correct_list,
          y_len_list, STATS, OPTIONS, steps>>

mainVars == <<OPTIONS, steps>>
preVars == <<raw, data, y_new_toks>>
evalVars == <<name, domain, decoded, derivs, denotation_correct_list,
              is_correct_list, tokens_correct_list, y_len_list, STATS>>

----------------------------------------------------------------------------
(* Python str and list built-ins, on sequences of characters.               *)

Min(S) == CHOOSE m \in S : \A n \in S : m <= n
Max(S) == CHOOSE m \in S : \A n \in S : n <= m

\* s[i-1:].startswith(sub), i counted from 1
MatchAt(s, sub, i) ==
  /\ i + Len(sub) - 1 <= Len(s)
  /\ SubSeq(s, i, i + Len(sub) - 1) = sub

\* s.startswith(p)
startswith(s, p) == MatchAt(s, p, 1)

\* s.index(sub) + 1 when sub occurs in s, and 0 when s.index(sub) raises
\* ValueError
index(s, sub) ==
  LET hits == {i \in 1..(Len(s) + 1) : MatchAt(s, sub, i)}
  IN IF hits = {} THEN 0 ELSE Min(hits)

\* s.replace('', new): new before every character and at the end
RECURSIVE Interleave(_, _)
Interleave(s, new) ==
  IF s = <<>> THEN new
  ELSE new \o <<Head(s)>> \o Interleave(Tail(s), new)

\* s.replace(old, new): every non-overlapping occurrence, left to right
RECURSIVE replace(_, _, _)
replace(s, old, new) ==
  IF old = <<>> THEN Interleave(s, new)
  ELSE LET p == index(s, old)
       IN IF p = 0 THEN s
          ELSE SubSeq(s, 1, p - 1) \o new
                 \o replace(SubSeq(s, p + Len(old), Len(s)), old, new)

\* s.split(sep), sep not empty
RECURSIVE split(_, _)
split(s, sep) ==
  LET p == index(s, sep)
  IN IF p = 0 THEN <<s>>
     ELSE <<SubSeq(s, 1, p - 1)>> \o split(SubSeq(s, p + Len(sep), Len(s)), sep)

\* sep.join(toks)
RECURSIVE join(_, _)
join(toks, sep) ==
  IF toks = <<>> THEN <<>>
  ELSE IF Len(toks) = 1 THEN toks[1]
  ELSE toks[1] \o sep \o join(Tail(toks), sep)

RECURSIVE sum(_)
sum(list) == IF list = <<>> THEN 0 ELSE Head(list) + sum(Tail(list))

Space == <<" ">>
LexSep == <<":", ":", ":">>
EntitySep == <<":", "-", ":">>
Sentinel == <<"a","d","d","_","e","n","t","i","t","y","_","n","o","d","e",":">>

----------------------------------------------------------------------------
(* preprocess_data                                                          *)

\* entity_lex_str.split(' '), or no item for the empty string
entity_lex_items(entity_lex_str) ==
  IF entity_lex_str = <<>> THEN <<>> ELSE split(entity_lex_str, Space)

\* parts[1] raises IndexError for an item without ':::'
LexiconRaises(entity_lex_str) ==
  \E k \in 1..Len(entity_lex_items(entity_lex_str)) :
    Len(split(entity_lex_items(entity_lex_str)[k], LexSep)) < 2

\* the dict entity_lex: a later item overwrites an earlier one with its key
ParseLexicon(entity_lex_str) ==
  LET items == entity_lex_items(entity_lex_str)
      parts(k) == split(items[k], LexSep)
      keys == {parts(k)[1] : k \in 1..Len(items)}
  IN [e \in keys |->
        parts(Max({k \in 1..Len(items) : parts(k)[1] = e}))[2]]

\* y_tok.index(':-:') raises ValueError
TokRaises(y_tok) ==
  startswith(y_tok, Sentinel) /\ index(y_tok, EntitySep) = 0

\* rewrites every token with a ':-:', whatever it starts with
RelexTok_NoSentinelCheck(y_tok, entity_lex) ==
  IF index(y_tok, EntitySep) # 0
  THEN LET entity == SubSeq(y_tok, index(y_tok, EntitySep) + 3, Len(y_tok))
       IN IF entity \in DOMAIN entity_lex
          THEN replace(y_tok, entity, entity_lex[entity])
          ELSE y_tok
  ELSE y_tok

\* the token appended to y_new_toks for y_tok
RelexTok(y_tok, entity_lex) ==
  IF startswith(y_tok, Sentinel)
  THEN LET entity == SubSeq(y_tok, index(y_tok, EntitySep) + 3, Len(y_tok))
       IN IF entity \in DOMAIN entity_lex
          THEN replace(y_tok, entity, entity_lex[entity])
          ELSE y_tok
  ELSE y_tok

Relex(y_toks, entity_lex) ==
  [j \in 1..Len(y_toks) |-> RelexTok(y_toks[j], entity_lex)]

RelexRaises(y_toks) == \E j \in 1..Len(y_toks) : TokRaises(y_toks[j])

\* ' '.join(domain_convertor(y_new_str, ..., entity_lex_map=entity_lex)):
\* the convertor is a pure function of the relexicalized string and the
\* lexicon, kept uninterpreted
domain_convertor(y_new_str, entity_lex) ==
  [action2seq |-> y_new_str, entity_lex_map |-> entity_lex]

\* Example(x_str, y_str, y_str_lf, entity_lex, ...): y_toks are the
\* space-separated tokens of y_str
Example(x_str, y_str, y_str_lf, entity_lex) ==
  [x_str |-> x_str, y_str |-> y_str, y_toks |-> split(y_str, Space),
   y_str_lf |-> y_str_lf, entity_lex |-> entity_lex]

\* the record the loop is at
raw_ex == raw[Len(data) + 1]

\* entity_lex is not reset for the record: the entries of the record before
\* stay in it
PreprocessRecord_LexiconLeaks ==
  /\ pc = "preprocess"
  /\ Len(data) < Len(raw)
  /\ ~LexiconRaises(raw_ex.entity_lex_str)
  /\ ~RelexRaises(split(raw_ex.y_str, Space))
  /\ LET own == ParseLexicon(raw_ex.entity_lex_str)
         prev == IF data = <<>> THEN ParseLexicon(<<>>)
                 ELSE data[Len(data)].entity_lex
         entity_lex == [e \in DOMAIN prev \cup DOMAIN own |->
                          IF e \in DOMAIN own THEN own[e] ELSE prev[e]]
         new_toks == Relex(split(raw_ex.y_str, Space), entity_lex)
         y_str_lf == domain_convertor(join(new_toks, Space), entity_lex)
     IN /\ y_new_toks' = Append(y_new_toks, new_toks)
        /\ data' = Append(data,
                          Example(raw_ex.x_str, raw_ex.y_str, y_str_lf, entity_lex))
  /\ UNCHANGED <<mainVars, pc, err, raw, evalVars>>

\* one iteration of the loop over raw, for a record that raises nothing
PreprocessRecord ==
  /\ pc = "preprocess"
  /\ Len(data) < Len(raw)
  /\ ~LexiconRaises(raw_ex.entity_lex_str)
  /\ ~RelexRaises(split(raw_ex.y_str, Space))
  /\ LET entity_lex == ParseLexicon(raw_ex.entity_lex_str)
         new_toks == Relex(split(raw_ex.y_str, Space), entity_lex)
         y_str_lf == domain_convertor(join(new_toks, Space), entity_lex)
     IN /\ y_new_toks' = Append(y_new_toks, new_toks)
        /\ data' = Append(data,
                          Example(raw_ex.x_str, raw_ex.y_str, y_str_lf, entity_lex))
  /\ UNCHANGED <<mainVars, pc, err, raw, evalVars>>

\* an iteration whose lexicon string has an item without ':::'
PreprocessIndexError ==
  /\ pc = "preprocess"
  /\ Len(data) < Len(raw)
  /\ LexiconRaises(raw_ex.entity_lex_str)
  /\ pc' = "raised"
  /\ err' = "IndexError"
  /\ UNCHANGED <<mainVars, preVars, evalVars>>

\* an iteration with an add_entity_node: token without ':-:'
PreprocessValueError ==
  /\ pc = "preprocess"
  /\ Len(data) < Len(raw)
  /\ ~LexiconRaises(raw_ex.entity_lex_str)
  /\ RelexRaises(split(raw_ex.y_str, Space))
  /\ pc' = "raised"
  /\ err' = "ValueError"
  /\ UNCHANGED <<mainVars, preVars, evalVars>>

\* return data
PreprocessReturn ==
  /\ pc = "preprocess"
  /\ Len(data) = Len(raw)
  /\ pc' = "preprocessed"
  /\ UNCHANGED <<mainVars, err, preVars, evalVars>>

----------------------------------------------------------------------------
(* Inputs of preprocess_data                                                *)

MaxToks == 2       \* tokens of an action string
MaxRecords == 2    \* records of a batch

SeqsFromTo(S, lo, hi) == UNION {[1..k -> S] : k \in lo..hi}

Prefixes == {<<"s">>, <<"t">>}
Entities == {<<>>, <<"t">>, <<"x">>, <<"-">>}

\* action tokens: add_entity_node:<prefix>:-:<entity>, add_entity_node:
\* tokens without ':-:', and other tokens
ActionTokens ==
  {Sentinel \o p \o EntitySep \o e : p \in Prefixes, e \in Entities}
    \cup {Sentinel, Sentinel \o <<"s">>}
    \cup {<<>>, <<"t">>, <<"s", ":", "-", ":", "t">>}

\* items of an entity lexicon string; "t::x" lacks the ':::' separator
LexItems ==
  {<<"t", ":", ":", ":", "x">>, <<"t", ":", ":", ":", "s">>,
   <<"-", ":", ":", ":", "x">>, <<":", ":", ":", "x">>,
   <<"t", ":", ":", "x">>}

LexStrs ==
  {<<>>} \cup LexItems \cup {a \o Space \o b : a \in LexItems, b \in LexItems}

ActionStrs == {join(toks, Space) : toks \in SeqsFromTo(ActionTokens, 1, MaxToks)}

RawRecord(x, y, z) == [x_str |-> x, y_str |-> y, entity_lex_str |-> z]

\* one record, over all the action strings and lexicon strings
SingleRecordInputs ==
  {<<RawRecord("u1", y, z)>> : y \in ActionStrs, z \in LexStrs}

BatchRecords ==
  {RawRecord(x, y, z) :
     x \in {"u1", "u2"},
     y \in {<<"t", " ", "s">>,
            Sentinel \o <<"s">> \o EntitySep \o <<"x">>,
            Sentinel \o <<"s">>},
     z \in {<<>>, <<"x", ":", ":", ":", "t">>, <<"t", ":", ":", "x">>}}

BatchInputs == SeqsFromTo(BatchRecords, 0, MaxRecords)

\* the variables of main while preprocess_data or evaluate is looked at alone
IdleMain ==
  /\ OPTIONS = [idle |-> TRUE]
  /\ steps = <<>>

IdleEval ==
  /\ name = "dev"
  /\ domain = "None"
  /\ decoded = <<>>
  /\ derivs = <<>>
  /\ denotation_correct_list = [is_none |-> TRUE, flags |-> <<>>]
  /\ is_correct_list = <<>>
  /\ tokens_correct_list = <<>>
  /\ y_len_list = <<>>
  /\ STATS = <<>>

InitPreprocess ==
  /\ pc = "preprocess"
  /\ err = ""
  /\ raw \in SingleRecordInputs \cup BatchInputs
  /\ data = <<>>
  /\ y_new_toks = <<>>
  /\ IdleEval
  /\ IdleMain

NextPreprocess ==
  \/ PreprocessRecord
  \/ PreprocessIndexError
  \/ PreprocessValueError
  \/ PreprocessReturn

SpecPreprocess == InitPreprocess /\ [][NextPreprocess]_vars

----------------------------------------------------------------------------
(* evaluate and print_accuracy_metrics                                      *)

\* a Derivation with its y_toks, and the None that stands for no derivation
Derivation(y_toks) == [is_none |-> FALSE, y_toks |-> y_toks]
NoneDeriv == [is_none |-> TRUE, y_toks |-> <<>>]

\* what decode() returns: None, or a list of Derivations, best first
DecodeNone == [is_none |-> TRUE, list |-> <<>>]
DecodeList(list) == [is_none |-> FALSE, list |-> list]

\* decode(...)[0] raises: TypeError on None, IndexError on the empty list
Top1Raises(d) == d.is_none \/ d.list = <<>>
Top1Error(d) == IF d.is_none THEN "TypeError" ELSE "IndexError"

\* domain.compare_answers(true_answers, true_answers_lf, all_derivs): the
\* outcomes [derivs, flags] the oracle can return: for every example a
\* derivation it chose among that example's candidates, or None when there
\* is none, and its denotation flag (False for None)
compare_answers(all_derivs) ==
  {o \in [derivs : [1..Len(all_derivs) -> {NoneDeriv}
                      \cup UNION {{d.list[j] : j \in 1..Len(d.list)} :
                                    d \in {all_derivs[k] : k \in 1..Len(all_derivs)}}],
          flags : [1..Len(all_derivs) -> BOOLEAN]] :
     \A k \in 1..Len(all_derivs) :
       IF Top1Raises(all_derivs[k])
       THEN o.derivs[k] = NoneDeriv /\ ~o.flags[k]
       ELSE \E j \in 1..Len(all_derivs[k].list) :
              o.derivs[k] = all_derivs[k].list[j]}

\* y_pred_toks: [] for None, else derivs[i].y_toks
y_pred_toks(deriv) == IF deriv.is_none THEN <<>> ELSE deriv.y_toks

\* compares over the zipped prefix only: every reference token is matched
IsCorrect_Truncated(pred_toks, ex) ==
  /\ Len(pred_toks) >= Len(ex.y_toks)
  /\ SubSeq(pred_toks, 1, Len(ex.y_toks)) = ex.y_toks

\* is_correct = (y_pred_str == ex.y_str), y_pred_str = ' '.join(y_pred_toks)
IsCorrect(pred_toks, ex) == join(pred_toks, Space) = ex.y_str

Bool2Int(b) == IF b THEN 1 ELSE 0

\* zip(a, b): the pairs up to the shorter length
zip(a, b) ==
  [p \in 1..(IF Len(a) < Len(b) THEN Len(a) ELSE Len(b)) |-> <<a[p], b[p]>>]

\* counts every predicted token that occurs anywhere in the reference
TokensCorrect_Unaligned(pred_toks, ref_toks) ==
  sum([p \in 1..Len(pred_toks) |->
         Bool2Int(\E q \in 1..Len(ref_toks) : pred_toks[p] = ref_toks[q])])

\* tokens_correct = sum(a == b for a, b in zip(y_pred_toks, ex.y_toks))
TokensCorrect(pred_toks, ref_toks) ==
  LET pairs == zip(pred_toks, ref_toks)
  IN sum([p \in 1..Len(pairs) |-> Bool2Int(pairs[p][1] = pairs[p][2])])

\* bool(denotation_correct_list): None and [] are false
Truthy(dcl) == ~dcl.is_none /\ dcl.flags # <<>>

\* a level of STATS[name]; the float accuracy is kept as the ratio it is
\* computed from
Level(correct, total) ==
  [correct |-> correct, total |-> total, accuracy |-> <<correct, total>>]

\* takes the number of examples for the number of reference tokens
Fragment_TokenTotalIsExamples(correct_list, tok_list, len_list, dcl) ==
  LET num_examples == Len(correct_list)
      num_correct == sum([k \in 1..Len(correct_list) |-> Bool2Int(correct_list[k])])
      sentence == Level(num_correct, num_examples)
      token == Level(sum(tok_list), num_examples)
  IN IF Truthy(dcl)
     THEN [sentence |-> sentence, token |-> token,
           denotation |->
             Level(sum([k \in 1..Len(dcl.flags) |-> Bool2Int(dcl.flags[k])]),
                   num_examples)]
     ELSE [sentence |-> sentence, token |-> token]

\* STATS[name] as print_accuracy_metrics leaves it
Fragment(correct_list, tok_list, len_list, dcl) ==
  LET num_examples == Len(correct_list)
      num_correct == sum([k \in 1..Len(correct_list) |-> Bool2Int(correct_list[k])])
      sentence == Level(num_correct, num_examples)
      token == Level(sum(tok_list), sum(len_list))
  IN IF Truthy(dcl)
     THEN [sentence |-> sentence, token |-> token,
           denotation |->
             Level(sum([k \in 1..Len(dcl.flags) |-> Bool2Int(dcl.flags[k])]),
                   num_examples)]
     ELSE [sentence |-> sentence, token |-> token]

\* lines 373-377: with an oracle, decode every example and let it choose
EvalDecodeOracle ==
  /\ pc = "evaluate"
  /\ domain = "oracle"
  /\ \E o \in compare_answers(decoded) :
       /\ derivs' = o.derivs
       /\ denotation_correct_list' = [is_none |-> FALSE, flags |-> o.flags]
  /\ pc' = "sizes"
  /\ UNCHANGED <<mainVars, err, preVars, name, domain, decoded, is_correct_list,
                 tokens_correct_list, y_len_list, STATS>>

\* lines 379-380: without one, the first derivation of every example
EvalDecodeTop1 ==
  /\ pc = "evaluate"
  /\ domain = "None"
  /\ \A k \in 1..Len(decoded) : ~Top1Raises(decoded[k])
  /\ derivs' = [k \in 1..Len(decoded) |-> decoded[k].list[1]]
  /\ denotation_correct_list' = [is_none |-> TRUE, flags |-> <<>>]
  /\ pc' = "sizes"
  /\ UNCHANGED <<mainVars, err, preVars, name, domain, decoded, is_correct_list,
                 tokens_correct_list, y_len_list, STATS>>

\* line 379: decode(...)[0] on None or on the empty list
EvalDecodeTop1Raises ==
  /\ pc = "evaluate"
  /\ domain = "None"
  /\ \E k \in 1..Len(decoded) :
       /\ Top1Raises(decoded[k])
       /\ \A h \in 1..(k - 1) : ~Top1Raises(decoded[h])
       /\ err' = Top1Error(decoded[k])
  /\ pc' = "raised"
  /\ UNCHANGED <<mainVars, preVars, evalVars>>

\* lines 382-384, with a list of flags
EvalPrintSizes ==
  /\ pc = "sizes"
  /\ ~denotation_correct_list.is_none
  /\ pc' = "loop"
  /\ UNCHANGED <<mainVars, err, preVars, evalVars>>

\* line 383: len(denotation_correct_list) on None
EvalPrintSizesTypeError ==
  /\ pc = "sizes"
  /\ denotation_correct_list.is_none
  /\ pc' = "raised"
  /\ err' = "TypeError"
  /\ UNCHANGED <<mainVars, preVars, evalVars>>

\* lines 386-426: one example of the loop (len(ex.y_toks) is never 0, so
\* the division of line 423 is defined)
EvalExample ==
  /\ pc = "loop"
  /\ Len(is_correct_list) < Len(data)
  /\ LET i == Len(is_correct_list) + 1
         ex == data[i]
         pred == y_pred_toks(derivs[i])
     IN /\ is_correct_list' = Append(is_correct_list, IsCorrect(pred, ex))
        /\ tokens_correct_list' =
             Append(tokens_correct_list, TokensCorrect(pred, ex.y_toks))
        /\ y_len_list' = Append(y_len_list, Len(ex.y_toks))
  /\ UNCHANGED <<mainVars, pc, err, preVars, name, domain, decoded, derivs,
                 denotation_correct_list, STATS>>

\* lines 427, 321-355: the metrics of a dataset with examples and tokens
EvalMetrics ==
  /\ pc = "loop"
  /\ Len(is_correct_list) = Len(data)
  /\ Len(is_correct_list) # 0
  /\ sum(y_len_list) # 0
  /\ STATS' = [n \in DOMAIN STATS \cup {name} |->
                 IF n = name
                 THEN Fragment(is_correct_list, tokens_correct_list, y_len_list,
                               denotation_correct_list)
                 ELSE STATS[n]]
  /\ pc' = "done"
  /\ UNCHANGED <<mainVars, err, preVars, name, domain, decoded, derivs,
                 denotation_correct_list, is_correct_list,
                 tokens_correct_list, y_len_list>>

\* lines 325-326: float(...) / 0
EvalMetricsZeroDivision ==
  /\ pc = "loop"
  /\ Len(is_correct_list) = Len(data)
  /\ Len(is_correct_list) = 0 \/ sum(y_len_list) = 0
  /\ pc' = "raised"
  /\ err' = "ZeroDivisionError"
  /\ UNCHANGED <<mainVars, preVars, evalVars>>

----------------------------------------------------------------------------
(* Inputs of evaluate                                                       *)

MaxExamples == 2   \* examples of a dataset

NoLexicon == ParseLexicon(<<>>)

\* reference action strings: '', 'a b', 'b a'
RefStrs == {<<>>, <<"a", " ", "b">>, <<"b", " ", "a">>}

\* predicted token lists; a token of the output vocabulary has no space
PredToks == {<<>>, << <<"a">> >>, << <<"a">>, <<"b">> >>,
             << <<"a">>, <<"b">>, <<"a">> >>}

\* decode(): None, no derivation, one derivation, or two candidates
DecodeResults ==
  {DecodeNone, DecodeList(<<>>)}
    \cup {DecodeList(<<Derivation(t)>>) : t \in PredToks}
    \cup {DecodeList(<<Derivation(<< <<"a">> >>),
                       Derivation(<< <<"a">>, <<"b">> >>)>>)}

EvalExamples ==
  {Example("u1", y, domain_convertor(y, NoLexicon), NoLexicon) : y \in RefStrs}

\* what an earlier evaluate call, with an oracle, left under another name
EarlierFragment ==
  Fragment(<<TRUE, FALSE>>, <<2, 1>>, <<2, 3>>,
           [is_none |-> FALSE, flags |-> <<TRUE, FALSE>>])

InitEvaluate ==
  /\ pc = "evaluate"
  /\ err = ""
  /\ IdleMain
  /\ raw = <<>>
  /\ y_new_toks = <<>>
  /\ data \in SeqsFromTo(EvalExamples, 0, MaxExamples)
  /\ decoded \in [1..Len(data) -> DecodeResults]
  /\ name \in {"train", "dev"}
  /\ domain \in {"None", "oracle"}
  /\ derivs = <<>>
  /\ denotation_correct_list = [is_none |-> TRUE, flags |-> <<>>]
  /\ is_correct_list = <<>>
  /\ tokens_correct_list = <<>>
  /\ y_len_list = <<>>
  /\ STATS \in {<<>>} \cup {[n \in {o} |-> EarlierFragment] :
                                o \in {"train", "dev"} \ {name}}

NextEvaluate ==
  \/ EvalDecodeOracle
  \/ EvalDecodeTop1
  \/ EvalDecodeTop1Raises
  \/ EvalPrintSizes
  \/ EvalPrintSizesTypeError
  \/ EvalExample
  \/ EvalMetrics
  \/ EvalMetricsZeroDivision

SpecEvaluate == InitEvaluate /\ [][NextEvaluate]_vars

----------------------------------------------------------------------------
(* Properties of preprocess_data                                            *)

\* the tokens of record k and the lexicon parsed for it
InToks(k) == split(raw[k].y_str, Space)
Lex(k) == data[k].entity_lex
Positions(k) == 1..Len(InToks(k))

\* a token add_entity_node:<prefix>:-:<entity-id>, and its entity-id
HasShape(tok) == startswith(tok, Sentinel) /\ index(tok, EntitySep) # 0
EntityId(tok) == SubSeq(tok, index(tok, EntitySep) + 3, Len(tok))
UpToSep(tok) == SubSeq(tok, 1, index(tok, EntitySep) + 2)

\* C1: every token add_entity_node:<prefix>:-:<entity-id> whose entity-id is
\* a key of the lexicon is rewritten to the same sentinel, prefix and
\* separator followed by the surface name, and nothing else of it changes.
C1_OnlySuffixReplaced ==
  \A k \in 1..Len(y_new_toks) : \A j \in Positions(k) :
    (HasShape(InToks(k)[j]) /\ EntityId(InToks(k)[j]) \in DOMAIN Lex(k))
      => /\ Len(y_new_toks[k]) = Len(InToks(k))
         /\ y_new_toks[k][j]
              = UpToSep(InToks(k)[j]) \o Lex(k)[EntityId(InToks(k)[j])]

\* C2: no token makes the rewrite fail, and a token that has not the shape,
\* or whose entity-id is no key of the lexicon, is kept verbatim in its
\* position.
C2_PassThroughNeverRaises ==
  /\ err # "ValueError"
  /\ \A k \in 1..Len(y_new_toks) :
       /\ Len(y_new_toks[k]) = Len(InToks(k))
       /\ \A j \in Positions(k) :
            (~HasShape(InToks(k)[j]) \/ EntityId(InToks(k)[j]) \notin DOMAIN Lex(k))
              => y_new_toks[k][j] = InToks(k)[j]

\* C3: an action string none of whose tokens starts with add_entity_node:
\* is relexicalized to itself, token for token, whatever the lexicon.
C3_IdentityWithoutSentinel ==
  \A k \in 1..Len(y_new_toks) :
    (\A j \in Positions(k) : ~startswith(InToks(k)[j], Sentinel))
      => /\ y_new_toks[k] = InToks(k)
         /\ join(y_new_toks[k], Space) = raw[k].y_str

\* a record without add_entity_node: tokens was relexicalized under a
\* lexicon that has the suffix of one of its ':-:' tokens as a key
C3_Witness ==
  \E k \in 1..Len(y_new_toks) :
    /\ \A j \in Positions(k) : ~startswith(InToks(k)[j], Sentinel)
    /\ Len(InToks(k)) >= 2
    /\ \E j \in Positions(k) :
         /\ index(InToks(k)[j], EntitySep) # 0
         /\ EntityId(InToks(k)[j]) \in DOMAIN Lex(k)

\* C4: when every add_entity_node: token of the input has its ':-:', every
\* add_entity_node: token of the output has one too.
C4_SeparatorKept ==
  \A k \in 1..Len(y_new_toks) :
    (\A j \in Positions(k) :
       startswith(InToks(k)[j], Sentinel) => HasShape(InToks(k)[j]))
      => \A j \in 1..Len(y_new_toks[k]) :
           startswith(y_new_toks[k][j], Sentinel) => HasShape(y_new_toks[k][j])

\* C5: a record whose lexicon string has a pair without ':::' does not abort
\* preprocess_data: the run returns an Example for every record, and the
\* malformed record's lexicon is empty.
C5_MalformedLexiconDegrades ==
  \A k \in 1..Len(raw) :
    LexiconRaises(raw[k].entity_lex_str)
      => /\ err # "IndexError"
         /\ pc = "preprocessed"
              => (Len(data) = Len(raw) /\ DOMAIN data[k].entity_lex = {})

----------------------------------------------------------------------------
(* Properties of evaluate                                                   *)

\* the examples the loop has scored, and the prediction scored for each
Scored == 1..Len(is_correct_list)
Pred(k) == y_pred_toks(derivs[k])
RefToks(k) == split(data[k].y_str, Space)
MinLen(k) == IF Len(Pred(k)) < Len(data[k].y_toks)
             THEN Len(Pred(k)) ELSE Len(data[k].y_toks)

\* the prediction is the whole reference followed by more tokens
RefPlusExtra(k) ==
  /\ Len(Pred(k)) > Len(RefToks(k))
  /\ SubSeq(Pred(k), 1, Len(RefToks(k))) = RefToks(k)

C7_TokensCorrectIsPositional ==
  \A k \in 1..Len(tokens_correct_list) :
    /\ tokens_correct_list[k]
         = Cardinality({p \in 1..MinLen(k) : Pred(k)[p] = data[k].y_toks[p]})
    /\ tokens_correct_list[k] <= MinLen(k)

\* an example was scored whose prediction and reference differ in length and
\* agree at some position
C7_Witness ==
  \E k \in 1..Len(tokens_correct_list) :
    /\ Len(Pred(k)) # Len(data[k].y_toks)
    /\ tokens_correct_list[k] >= 1

\* every example has a decode result, and all its candidates are the
\* reference tokens
AllIdentical ==
  \A k \in 1..Len(data) :
    /\ ~Top1Raises(decoded[k])
    /\ \A j \in 1..Len(decoded[k].list) :
         decoded[k].list[j].y_toks = data[k].y_toks

Ended == pc \in {"done", "raised"}

\* C8: when every prediction of a non-empty dataset is its reference,
\* evaluate ends with STATS[name] recorded, token.correct = token.total and
\* sentence.correct = sentence.total.
C8_IdenticalScoresFull ==
  (Ended /\ data # <<>> /\ AllIdentical)
    => /\ pc = "done"
       /\ name \in DOMAIN STATS
       /\ STATS[name].token.correct = STATS[name].token.total
       /\ STATS[name].sentence.correct = STATS[name].sentence.total
       /\ \A k \in Scored : tokens_correct_list[k] = y_len_list[k]

\* C8 where an oracle is supplied (the path that reaches the scoring loop)
C8_IdenticalScoresFullWithOracle == domain = "oracle" => C8_IdenticalScoresFull

\* C9: a decode failure never makes evaluate raise: the example is counted
\* incorrect on the three levels and the other examples are scored.
C9_DecodeFailureCountedIncorrect ==
  \A k \in 1..Len(data) :
    Top1Raises(decoded[k])
      => /\ err \notin {"TypeError", "IndexError"}
         /\ pc = "done"
              => /\ Len(is_correct_list) = Len(data)
                 /\ ~is_correct_list[k]
                 /\ tokens_correct_list[k] = 0
                 /\ Truthy(denotation_correct_list)
                      => ~denotation_correct_list.flags[k]

\* C10: evaluate on an empty dataset ends in a ConfigurationError and
\* records no STATS[name].
C10_EmptyDatasetIsConfigurationError ==
  (Ended /\ data = <<>>)
    => /\ pc = "raised"
       /\ err = "ConfigurationError"
       /\ name \notin DOMAIN STATS

\* the levels STATS[name] holds
Levels(n) == DOMAIN STATS[n]

\* C11: evaluate without an oracle on a non-empty dataset completes and
\* records STATS[name] with the levels sentence and token and no denotation;
\* the denotation level is recorded exactly when an oracle is supplied.
C11_NoOracleCompletesWithoutDenotation ==
  (Ended /\ data # <<>>)
    => /\ domain = "None"
            => /\ (\A k \in 1..Len(data) : ~Top1Raises(decoded[k]))
                    => /\ pc = "done"
                       /\ derivs = [h \in 1..Len(data) |-> decoded[h].list[1]]
               /\ pc = "done" => Levels(name) = {"sentence", "token"}
       /\ pc = "done" => ("denotation" \in Levels(name) <=> domain = "oracle")

\* a level counts between 0 and its total, and its total is t
LevelWithin(level, t) ==
  /\ level.total = t
  /\ 0 <= level.correct
  /\ level.correct <= level.total

\* C13: when evaluate completes on a non-empty dataset, STATS[name] has
\* sentence.total = the number of examples, token.total = the sum of the
\* reference lengths, denotation.total (when present) = the number of
\* examples, every correct count between 0 and its total, and the fragments
\* under other names are what they were.
C13_FragmentWithinTotals ==
  [][(pc # "done" /\ pc' = "done")
       => /\ name \in DOMAIN STATS'
          /\ {"sentence", "token"} \subseteq DOMAIN STATS'[name]
          /\ LevelWithin(STATS'[name].sentence, Len(data))
          /\ LevelWithin(STATS'[name].token,
                         sum([k \in 1..Len(data) |-> Len(data[k].y_toks)]))
          /\ "denotation" \in DOMAIN STATS'[name]
               => LevelWithin(STATS'[name].denotation, Len(data))
          /\ \A n \in DOMAIN STATS \ {name} :
               n \in DOMAIN STATS' /\ STATS'[n] = STATS[n]]_vars

\* evaluate completed on two examples, with some but not all tokens and
\* sentences correct, next to a fragment recorded earlier
C13_Witness ==
  /\ pc = "done"
  /\ Len(data) = 2
  /\ DOMAIN STATS = {"train", "dev"}
  /\ "denotation" \in Levels(name)
  /\ STATS[name].token.correct > Len(data)
  /\ STATS[name].token.correct < STATS[name].token.total
  /\ STATS[name].sentence.correct = 1

\* the items of record k's lexicon string, and the key and the surface name
\* of an item
Items(k) == entity_lex_items(raw[k].entity_lex_str)
ItemKey(item) == SubSeq(item, 1, index(item, LexSep) - 1)
ItemName(item) == split(item, LexSep)[2]

\* every pair of the record has its ':::' and every add_entity_node: token
\* its ':-:'
WellFormed(k) ==
  /\ \A j \in 1..Len(Items(k)) : index(Items(k)[j], LexSep) # 0
  /\ \A j \in Positions(k) :
       startswith(InToks(k)[j], Sentinel) => index(InToks(k)[j], EntitySep) # 0

\* the lexicon of Example k holds the pairs of record k and nothing else
OwnLexicon(k) ==
  /\ DOMAIN data[k].entity_lex = {ItemKey(Items(k)[j]) : j \in 1..Len(Items(k))}
  /\ \A j \in 1..Len(Items(k)) :
       (\A h \in (j + 1)..Len(Items(k)) : ItemKey(Items(k)[h]) # ItemKey(Items(k)[j]))
         => data[k].entity_lex[ItemKey(Items(k)[j])] = ItemName(Items(k)[j])

\* C14: on well-formed records preprocess_data returns one Example per
\* record, in order, each with the record's utterance, its original action
\* string, the lexicon of that record alone and the convertor's output for
\* the relexicalized action string.
C14_OneExamplePerRecord ==
  ((\A k \in 1..Len(raw) : WellFormed(k)) /\ pc \in {"preprocessed", "raised"})
    => /\ pc = "preprocessed"
       /\ Len(data) = Len(raw)
       /\ \A k \in 1..Len(raw) :
            /\ data[k].x_str = raw[k].x_str
            /\ data[k].y_str = raw[k].y_str
            /\ OwnLexicon(k)
            /\ data[k].y_str_lf
                 = domain_convertor(join(y_new_toks[k], Space), data[k].entity_lex)

\* two records with different utterances were returned: the first was
\* relexicalized with its lexicon, the second has no lexicon
C14_Witness ==
  /\ pc = "preprocessed"
  /\ Len(raw) = 2
  /\ raw[1].x_str # raw[2].x_str
  /\ DOMAIN data[1].entity_lex # {}
  /\ join(y_new_toks[1], Space) # raw[1].y_str
  /\ raw[2].entity_lex_str = <<>>
  /\ raw[2].y_str = raw[1].y_str

----------------------------------------------------------------------------
(* main: _parse_args, then run                                              *)

\* the registries the options are checked against
RNN_TYPES == {"rnn", "gru", "lstm"}
MODELS == {"attention"}
VOCAB_TYPES == {"raw", "glove", "action"}
CONTROLLERS == {"geoontology", "generalontology", "atisontology",
                "atisgeneralontology"}

\* an option value: the default False, or the string given on the command
\* line
PyFalse == [is_str |-> FALSE, str |-> ""]
PyStr(str) == [is_str |-> TRUE, str |-> str]

\* bool(v): False and '' are false, every other string is true
bool(v) == v.is_str /\ v.str # ""

\* lines 187-193
use_domain_ontology_count(opts) ==
  Bool2Int(bool(opts.use_geoontology)) + Bool2Int(bool(opts.use_atisontology))
    + Bool2Int(bool(opts.use_overnightontology))

\* stops only when all three are set
OntologyConflict_OnlyAllThree(opts) == use_domain_ontology_count(opts) > 2

\* line 194
OntologyConflict(opts) == use_domain_ontology_count(opts) > 1

\* lines 171-186: one of the basic checks fails
BasicError(opts) ==
  \/ opts.rnn_type \notin RNN_TYPES
  \/ opts.model \notin MODELS
  \/ opts.input_vocab_type \notin VOCAB_TYPES
  \/ opts.output_vocab_type \notin VOCAB_TYPES

\* lines 171-186: sys.exit(1) of a basic check
ParseArgsBasicError ==
  /\ pc = "main"
  /\ BasicError(OPTIONS)
  /\ pc' = "exited"
  /\ err' = "SystemExit"
  /\ UNCHANGED <<mainVars, preVars, evalVars>>

\* lines 187-196: sys.exit(1) for more than one domain ontology
ParseArgsOntologyError ==
  /\ pc = "main"
  /\ ~BasicError(OPTIONS)
  /\ OntologyConflict(OPTIONS)
  /\ pc' = "exited"
  /\ err' = "SystemExit"
  /\ UNCHANGED <<mainVars, preVars, evalVars>>

\* _parse_args returns and main calls run (lines 645-648)
ParseArgsReturn ==
  /\ pc = "main"
  /\ ~BasicError(OPTIONS)
  /\ ~OntologyConflict(OPTIONS)
  /\ pc' = "run"
  /\ UNCHANGED <<err, mainVars, preVars, evalVars>>

\* lines 591-596: configure_theano, the domain, the raw data, the databases
RunLoad ==
  /\ pc = "run"
  /\ steps' = steps \o <<"configure_theano", "load_raw_all", "load_databases">>
  /\ pc' = "init_spec"
  /\ UNCHANGED <<err, OPTIONS, preVars, evalVars>>

\* lines 599, 558-570: init_spec with a load file or training data
RunInitSpec ==
  /\ pc = "init_spec"
  /\ OPTIONS.load_file \/ OPTIONS.train_data
  /\ steps' = Append(steps, "init_spec")
  /\ pc' = "get_model"
  /\ UNCHANGED <<err, OPTIONS, preVars, evalVars>>

\* line 569: neither parameters to load nor training data
RunInitSpecRaises ==
  /\ pc = "init_spec"
  /\ ~(OPTIONS.load_file \/ OPTIONS.train_data)
  /\ pc' = "raised"
  /\ err' = "Exception"
  /\ UNCHANGED <<mainVars, preVars, evalVars>>

\* lines 600-608: the model, the two controllers, the convertor
RunGetModel ==
  /\ pc = "get_model"
  /\ {OPTIONS.general_ontology, OPTIONS.domain_ontology} \subseteq CONTROLLERS
  /\ steps' = steps \o <<"get_model", "controllers">>
  /\ pc' = "train"
  /\ UNCHANGED <<err, OPTIONS, preVars, evalVars>>

\* lines 601-602: CONTROLLERS[...] of a key it does not hold
RunGetModelKeyError ==
  /\ pc = "get_model"
  /\ ~({OPTIONS.general_ontology, OPTIONS.domain_ontology} \subseteq CONTROLLERS)
  /\ steps' = Append(steps, "get_model")
  /\ pc' = "raised"
  /\ err' = "KeyError"
  /\ UNCHANGED <<OPTIONS, preVars, evalVars>>

\* lines 612-624: with training data, preprocess it and train
RunTrain ==
  /\ pc = "train"
  /\ steps' = IF OPTIONS.train_data
              THEN steps \o <<"preprocess_data", "train">>
              ELSE steps
  /\ pc' = "evaluate_dev"
  /\ UNCHANGED <<err, OPTIONS, preVars, evalVars>>

\* lines 631-637: with dev data, evaluate_dev; then write_stats
RunEvaluateDev ==
  /\ pc = "evaluate_dev"
  /\ steps' = IF OPTIONS.dev_data
              THEN steps \o <<"evaluate_dev", "write_stats">>
              ELSE Append(steps, "write_stats")
  /\ pc' = "finished"
  /\ UNCHANGED <<err, OPTIONS, preVars, evalVars>>

\* the values an ontology usage option is given
FlagValues == {PyFalse, PyStr(""), PyStr("True"), PyStr("False")}

OptionSets ==
  [rnn_type : {"lstm", "None"},
   model : {"attention", "None"},
   input_vocab_type : {"raw", "bogus"},
   output_vocab_type : {"action", "bogus"},
   general_ontology : {"generalontology"},
   domain_ontology : {"geoontology", "None"},
   use_geoontology : FlagValues,
   use_atisontology : FlagValues,
   use_overnightontology : FlagValues,
   train_data : BOOLEAN,
   dev_data : BOOLEAN,
   load_file : BOOLEAN]

InitMain ==
  /\ pc = "main"
  /\ err = ""
  /\ OPTIONS \in OptionSets
  /\ steps = <<>>
  /\ raw = <<>>
  /\ data = <<>>
  /\ y_new_toks = <<>>
  /\ IdleEval

NextMain ==
  \/ ParseArgsBasicError
  \/ ParseArgsOntologyError
  \/ ParseArgsReturn
  \/ RunLoad
  \/ RunInitSpec
  \/ RunInitSpecRaises
  \/ RunGetModel
  \/ RunGetModelKeyError
  \/ RunTrain
  \/ RunEvaluateDev

SpecMain == InitMain /\ [][NextMain]_vars

\* the ontology usage options that are set: given a non-empty value
DomainFlags == {"use_geoontology", "use_atisontology", "use_overnightontology"}
FlagsSet == {f \in DomainFlags : OPTIONS[f] \notin {PyFalse, PyStr("")}}

\* C12: with two or more of the domain ontology usage options set the
\* program stops in _parse_args and no step of run() is ever taken; with at
\* most one set (and the other options valid) _parse_args returns and run()
\* starts.
C12_AtMostOneDomainOntology ==
  /\ Cardinality(FlagsSet) >= 2
       => /\ steps = <<>>
          /\ pc \in {"main", "exited"}
          /\ pc = "exited" => err = "SystemExit"
  /\ (Cardinality(FlagsSet) <= 1 /\ ~BasicError(OPTIONS) /\ pc # "main")
       => pc # "exited"

\* _parse_args stopped a command line whose other options are valid, that
\* names training data and sets exactly two of the options
C12_Witness ==
  /\ pc = "exited"
  /\ Cardinality(FlagsSet) = 2
  /\ ~BasicError(OPTIONS)
  /\ OPTIONS.train_data
  /\ steps = <<>>

====
